---- MODULE Spec2Model ----
(***************************************************************************)
(* Model of virtualdesktop-openxr/system.cpp: the OpenXrRuntime entry      *)
(* points xrGetSystem, xrGetSystemProperties and                           *)
(* xrEnumerateEnvironmentBlendModes, and the lazy LibOVR bring-up          *)
(* (initializeOVR, ensureOVRSession, initializeSystem).                    *)
(*                                                                         *)
(* rt   : the fields of the OpenXrRuntime object.                          *)
(* ovr  : what LibOVR has been asked to do (sessions created, flags set,   *)
(*        calibrations run), kept to observe leaks and ordering.           *)
(* pre  : rt and ovr as they were when the last API call was entered.      *)
(* call : the last API call and its arguments.                             *)
(* out  : what the last API call returned and wrote to caller memory,      *)
(*        with the trace of collaborator calls it made.                    *)
(* pc, tret : position and last result of each thread, used only by the    *)
(*        interleaved specification SpecConc.                              *)
(***************************************************************************)
EXTENDS Integers, Sequences, FiniteSets, TLC

VARIABLES rt, ovr, pre, call, out, pc, tret

vars == <<rt, ovr, pre, call, out, pc, tret>>

---------------------------------------------------------------------------
(* Bounds of the model *)

\* longest caller-supplied output chain behind XrSystemProperties::next
MaxChain == 2
\* largest environmentBlendModeCapacityInput tried, and the caller's buffer size
MaxCapacity == 2
\* ovr_Create is not called once this many sessions have been created
MaxSessions == 3

---------------------------------------------------------------------------
(* Program constants *)

\* (XrInstance)1 and (XrSystemId)1
InstanceSentinel == 1
SystemSentinel == 1
\* for (int i = 0; i < 100; i++)
CalibrationRounds == 100
\* m_ovrTimeFromQpcTimeOffset = INFINITY: larger than every time value of the model
INFINITY == 2147483647
\* ovrMaxLayerCount (OVR_CAPI.h)
ovrMaxLayerCount == 16
\* maxSwapchainImageWidth / Height
MaxSwapchainImageSize == 16384
\* OVR_DEFAULT_EYE_HEIGHT, in millimetres
OVR_DEFAULT_EYE_HEIGHT == 1675
\* 1.0 / DisplayRefreshRate, held in microseconds
MicrosPerSecond == 1000000

NULL == 0

\* static const XrEnvironmentBlendMode blendModes[]
blendModes == <<"XR_ENVIRONMENT_BLEND_MODE_OPAQUE">>

\* uint8_t uuid[] = {82, 80, 120, 165, 90, 171, 77, 201, 184, 2, 30, 189, 108, 124, 255, 244}
HeadsetUuid == "525078a5-5aab-4dc9-b802-1ebd6c7cfff4"

Unwritten == "unwritten"

---------------------------------------------------------------------------
(* Devices the backend can report (ovrHmdDesc) *)

Fov(u, d, l, r) == [UpTan |-> u, DownTan |-> d, LeftTan |-> l, RightTan |-> r]

HmdDesc(serial, product, vendor, rate, fovL, fovR) ==
    [SerialNumber |-> serial, ProductName |-> product, VendorId |-> vendor,
     DisplayRefreshRate |-> rate, DefaultEyeFov |-> [Left |-> fovL, Right |-> fovR]]

\* ovrHmdDesc{}: the value-initialised descriptor
EmptyHmdInfo == HmdDesc("", "", 0, 0, Fov(0, 0, 0, 0), Fov(0, 0, 0, 0))

Devices ==
    { HmdDesc("SN-A", "Quest 2", 10291, 72, Fov(1, 1, 1, 1), Fov(1, 1, 1, 1)),
      HmdDesc("SN-B", "Quest Pro", 10291, 90, Fov(1, 2, 2, 1), Fov(1, 2, 1, 2)),
      HmdDesc("", "Pico 4", 11045, 90, Fov(2, 2, 1, 1), Fov(2, 2, 1, 1)) }

Eyes == {"Left", "Right"}

\* atan() on the tangents the devices use, in milliradians
ArcTan(t) == CASE t = 0 -> 0
               [] t = 1 -> 785
               [] t = 2 -> 1107

\* ovr_GetRenderDesc(session, eye, fov)
ovr_GetRenderDesc(eye, fov) ==
    [Fov |-> fov, HmdToEyePose |-> IF eye = "Left" THEN "ipd/2 left" ELSE "ipd/2 right"]

EmptyEyeInfo == [e \in Eyes |-> [Fov |-> Fov(0, 0, 0, 0), HmdToEyePose |-> "identity"]]
EmptyEyeFov == [e \in Eyes |-> [angleDown |-> 0, angleUp |-> 0, angleLeft |-> 0, angleRight |-> 0]]

---------------------------------------------------------------------------
(* The environment of one bring-up attempt: what the collaborators answer *)

OvrInitResults == {"ovrSuccess", "ovrError_LibLoad", "ovrError_ServiceConnection",
                   "ovrError_RemoteSession", "ovrError_Initialize"}
OvrCreateResults == {"ovrSuccess", "ovrError_NoHmd", "ovrError_DisplayLost"}
OvrTrackingResults == {"ovrSuccess", "ovrError_InvalidSession"}
Settings == {"absent", "true", "false"}

\* per-round scheduling jitter between the two clock reads
Jitter(pattern, i) == CASE pattern = 0 -> 0
                        [] pattern = 1 -> ((i * 7) % 5) + 1
                        [] pattern = 2 -> CalibrationRounds - i

\* (trueOffset, jitter pattern) of the two clocks during one calibration
Clocks == { [trueOffset |-> 5, jitter |-> 0], [trueOffset |-> -3, jitter |-> 1],
            [trueOffset |-> 2, jitter |-> 2] }

AllEnvs ==
    [serviceRunning : BOOLEAN,
     allow_oculus_runtime : Settings,
     regPath : BOOLEAN,
     initResult : OvrInitResults,
     createResult : OvrCreateResults,
     hmd : Devices,
     simulate_eye_tracking : Settings,
     mmfOpens : BOOLEAN,
     trackingResult : OvrTrackingResults,
     qpcFrequency : {10},
     clock : Clocks]

BaseEnv ==
    [serviceRunning |-> TRUE, allow_oculus_runtime |-> "absent", regPath |-> TRUE,
     initResult |-> "ovrSuccess", createResult |-> "ovrSuccess",
     hmd |-> CHOOSE d \in Devices : d.SerialNumber = "SN-A",
     simulate_eye_tracking |-> "absent", mmfOpens |-> TRUE,
     trackingResult |-> "ovrSuccess", qpcFrequency |-> 10,
     clock |-> CHOOSE c \in Clocks : c.jitter = 0]

\* The environment with every answer that the bring-up never asks for set to BaseEnv's.
Canon(e) ==
    LET toInit == IF e.serviceRunning THEN e.regPath ELSE e.allow_oculus_runtime # "false"
        toCreate == toInit /\ e.initResult = "ovrSuccess"
        toSystem == toCreate /\ e.createResult = "ovrSuccess"
        pick(asked, f) == IF asked THEN e[f] ELSE BaseEnv[f]
    IN  [serviceRunning |-> e.serviceRunning,
         allow_oculus_runtime |-> pick(~e.serviceRunning, "allow_oculus_runtime"),
         regPath |-> pick(e.serviceRunning, "regPath"),
         initResult |-> pick(toInit, "initResult"),
         createResult |-> pick(toCreate, "createResult"),
         hmd |-> pick(toSystem, "hmd"),
         simulate_eye_tracking |-> pick(toSystem, "simulate_eye_tracking"),
         mmfOpens |-> pick(toSystem /\ e.simulate_eye_tracking # "true", "mmfOpens"),
         trackingResult |-> pick(toSystem, "trackingResult"),
         qpcFrequency |-> e.qpcFrequency,
         clock |-> pick(toSystem, "clock")]

\* The clocks vary with the base device, the devices with the base clock.
Paired(e) ==
    \/ e.clock = BaseEnv.clock
    \/ e.hmd = BaseEnv.hmd /\ e.simulate_eye_tracking = "absent" /\ e.mmfOpens

Envs == { Canon(e) : e \in { x \in AllEnvs : Paired(x) } }

\* The environments of an attempt made with LibOVR already loaded: the service
\* may be running or not by then, the setting and the registry are not asked.
LoadedEnvs ==
    { e \in Envs : /\ e.serviceRunning => e.regPath
                   /\ ~e.serviceRunning => e.allow_oculus_runtime = "absent"
                   /\ e.initResult = "ovrSuccess" }

---------------------------------------------------------------------------
(* The OpenXrRuntime object and LibOVR *)

\* The fields of OpenXrRuntime that system.cpp reads or writes, as constructed.
InitialRuntime(instanceCreated, eyeGazeExt, headsetIdExt) ==
    [m_instanceCreated |-> instanceCreated,
     has_XR_EXT_eye_gaze_interaction |-> eyeGazeExt,
     has_XR_META_headset_id |-> headsetIdExt,
     m_systemCreated |-> FALSE,
     m_isOVRLoaded |-> FALSE,
     m_useOculusRuntime |-> FALSE,
     m_ovrSession |-> NULL,
     m_cachedHmdInfo |-> EmptyHmdInfo,
     m_eyeTrackingType |-> "None",
     m_ovrTimeReference |-> 0,
     m_qpcFrequency |-> 0,
     m_ovrTimeFromQpcTimeOffset |-> 0,
     m_displayRefreshRate |-> 0,
     m_idealFrameDuration |-> 0,
     m_predictedFrameDuration |-> 0,
     m_cachedEyeInfo |-> EmptyEyeInfo,
     m_cachedEyeFov |-> EmptyEyeFov,
     m_floorHeight |-> 0]

\* LibOVR as the runtime has driven it: sessions 1..created exist (none is ever
\* destroyed by system.cpp); isVDXR and eyeLevel are the sessions given the
\* "IsVDXR" flag and the eye-level tracking origin; calibrated lists, per
\* calibration run, the session m_ovrSession referred to.
InitialOvr ==
    [initialized |-> FALSE, created |-> 0, isVDXR |-> {}, eyeLevel |-> {},
     calibrated |-> <<>>]

\* One collaborator call and its answer.
Did(fn, res) == [fn |-> fn, res |-> res]

Log(m, fn, res) == [m EXCEPT !.trace = Append(@, Did(fn, res))]

\* A bring-up in progress: the runtime, LibOVR, and the collaborator calls so far.
Machine(r, o) == [rt |-> r, ovr |-> o, trace |-> <<>>]

\* What a step hands back: the machine and how control leaves the step
\* ("next": falls through, "true" / "false": returns, "throw": raises).
Step(m, ctl) == [m |-> m, ctl |-> ctl]

\* getSetting(key).value_or(dflt)
value_or(setting, dflt) == IF setting = "absent" THEN dflt ELSE setting = "true"

\* CHECK_OVRCMD(result): raises unless the backend reports success.
CHECK_OVRCMD(result) == IF result = "ovrSuccess" THEN "next" ELSE "throw"

---------------------------------------------------------------------------
(* initializeOVR *)

\* Mutant: the allow_oculus_runtime setting is not consulted.
ProbeService_AlwaysFallsBack(m, env) ==
    [m |-> [m EXCEPT !.rt.m_useOculusRuntime = ~env.serviceRunning,
                     !.trace = Append(@, [fn |-> "IsServiceRunning",
                                          res |-> IF env.serviceRunning THEN "true"
                                                  ELSE "false"])],
     ctl |-> "next"]

\* m_useOculusRuntime = !IsServiceRunning(...); refuse when the fallback is disallowed.
ProbeService(m, env) ==
    LET m1 == Log([m EXCEPT !.rt.m_useOculusRuntime = ~env.serviceRunning],
                  "IsServiceRunning", IF env.serviceRunning THEN "true" ELSE "false")
    IN  IF m1.rt.m_useOculusRuntime
        THEN LET m2 == Log(m1, "getSetting(allow_oculus_runtime)", env.allow_oculus_runtime)
             IN  IF ~value_or(env.allow_oculus_runtime, TRUE)
                 THEN Step(m2, "false")
                 ELSE Step(m2, "next")
        ELSE Step(m1, "next")

\* Mutant: a remote session is not taken for an unreachable service.
ServiceUnreachable_ConnectionOnly(result) == result = "ovrError_ServiceConnection"

\* result == ovrError_ServiceConnection || result == ovrError_RemoteSession
ServiceUnreachable(result) ==
    result = "ovrError_ServiceConnection" \/ result = "ovrError_RemoteSession"

\* Locate the override path, call ovr_InitializeWithPathOverride, map its result.
LoadLibOVR(m, env) ==
    LET usePath == ~m.rt.m_useOculusRuntime
        m1 == IF usePath
              THEN Log(m, "RegGetString", IF env.regPath THEN "path" ELSE "absent")
              ELSE m
    IN  IF usePath /\ ~env.regPath
        THEN Step(m1, "throw")
        ELSE LET m2 == Log(m1, IF usePath THEN "ovr_Initialize(overridePath)"
                                          ELSE "ovr_Initialize(nullptr)",
                           env.initResult)
                 m3 == [m2 EXCEPT !.ovr.initialized = @ \/ env.initResult = "ovrSuccess"]
             IN  IF env.initResult = "ovrError_LibLoad"
                 THEN Step(m3, "false")
                 ELSE IF ServiceUnreachable(env.initResult)
                 THEN Step(m3, "false")
                 ELSE Step(m3, CHECK_OVRCMD(env.initResult))

\* m_isOVRLoaded = true; m_ovrSession = nullptr; return true
MarkLoaded(m) ==
    Step([m EXCEPT !.rt.m_isOVRLoaded = TRUE, !.rt.m_ovrSession = NULL], "true")

initializeOVR(m, env) ==
    LET a == ProbeService(m, env)
    IN  IF a.ctl # "next" THEN a
        ELSE LET b == LoadLibOVR(a.m, env)
             IN  IF b.ctl # "next" THEN b ELSE MarkLoaded(b.m)

---------------------------------------------------------------------------
(* ensureOVRSession *)

\* ovr_Create(&m_ovrSession, ...): a new session on success, nothing written otherwise.
CreateSession(m, env) ==
    LET m1 == Log(m, "ovr_Create", env.createResult)
    IN  IF env.createResult = "ovrError_NoHmd"
        THEN Step(m1, "false")
        ELSE IF env.createResult # "ovrSuccess"
        THEN Step(m1, CHECK_OVRCMD(env.createResult))
        ELSE Step([m1 EXCEPT !.ovr.created = @ + 1,
                             !.rt.m_ovrSession = m1.ovr.created + 1], "next")

\* Mutant: the session is never given the "IsVDXR" flag.
TagSession_Never(m) == [m |-> m, ctl |-> "next"]

\* if (!m_useOculusRuntime) ovr_SetBool(m_ovrSession, "IsVDXR", true)
TagSession(m) ==
    IF ~m.rt.m_useOculusRuntime
    THEN Step(Log([m EXCEPT !.ovr.isVDXR =
                       IF m.rt.m_ovrSession = NULL THEN @ ELSE @ \cup {m.rt.m_ovrSession}],
                  "ovr_SetBool(IsVDXR)", "true"), "next")
    ELSE Step(m, "next")

\* QueryPerformanceCounter at round i, and ovr_GetTimeInSeconds() read right after it
QpcNow(env, i) == i * env.qpcFrequency
OvrTimeAt(env, i) == i + env.clock.trueOffset + Jitter(env.clock.jitter, i)

\* Mutant: the offset is the last sample taken, not the smallest.
CalibrationLoop_LastSample(offset, i, last, env) ==
    IF i >= last THEN offset
    ELSE OvrTimeAt(env, last - 1) - (QpcNow(env, last - 1) \div env.qpcFrequency)

\* Rounds i .. last-1 of the calibration loop, offset being
\* m_ovrTimeFromQpcTimeOffset so far; std::min(a, b) is (b < a) ? b : a.
RECURSIVE CalibrationLoop(_, _, _, _)
CalibrationLoop(offset, i, last, env) ==
    IF i >= last THEN offset
    ELSE LET qpcTime == QpcNow(env, i) \div env.qpcFrequency
             sample == OvrTimeAt(env, i) - qpcTime
         IN  IF sample < offset
             THEN CalibrationLoop(sample, i + 1, last, env)
             ELSE CalibrationLoop(offset, i + 1, last, env)

\* The whole loop, rounds 0 .. CalibrationRounds-1 in order, starting from
\* INFINITY (run in four consecutive stretches to keep the evaluation shallow).
CalibratedOffset(env) ==
    LET q == CalibrationRounds \div 4
        s1 == CalibrationLoop(INFINITY, 0, q, env)
        s2 == CalibrationLoop(s1, q, 2 * q, env)
        s3 == CalibrationLoop(s2, 2 * q, 3 * q, env)
    IN  CalibrationLoop(s3, 3 * q, CalibrationRounds, env)

\* m_ovrTimeReference, m_qpcFrequency, then the calibration of the offset.
Calibrate(m, env) ==
    LET m1 == Log(m, "QueryPerformanceFrequency", "calibrate")
    IN  Step([m1 EXCEPT !.rt.m_ovrTimeReference = OvrTimeAt(env, 0),
                        !.rt.m_qpcFrequency = env.qpcFrequency,
                        !.rt.m_ovrTimeFromQpcTimeOffset =
                            CalibratedOffset(env),
                        !.ovr.calibrated = Append(@, m.rt.m_ovrSession)], "next")

---------------------------------------------------------------------------
(* initializeSystem *)

\* ovr_GetHmdDesc(m_ovrSession): the attached device; no device for a null session.
ovr_GetHmdDesc(m, env) == IF m.rt.m_ovrSession = NULL THEN EmptyHmdInfo ELSE env.hmd

\* m_cachedEyeFov[i] from m_cachedEyeInfo[i].Fov
EyeFovAngles(eyeInfo) ==
    [e \in Eyes |-> [angleDown |-> 0 - ArcTan(eyeInfo[e].Fov.DownTan),
                     angleUp |-> ArcTan(eyeInfo[e].Fov.UpTan),
                     angleLeft |-> 0 - ArcTan(eyeInfo[e].Fov.LeftTan),
                     angleRight |-> ArcTan(eyeInfo[e].Fov.RightTan)]]

\* 1.0 / hmdInfo.DisplayRefreshRate
FrameDuration(rate) == MicrosPerSecond \div rate

\* Mutant: the whole descriptor is compared, not the serial number alone.
DeviceChanged_WholeIdentity(cached, hmdInfo) == cached # hmdInfo

\* std::string_view(m_cachedHmdInfo.SerialNumber) != hmdInfo.SerialNumber
DeviceChanged(cached, hmdInfo) == cached.SerialNumber # hmdInfo.SerialNumber

\* Mutant: the shared-memory source is opened but its answer is dropped.
SelectEyeTracking_MmfIgnored(simulated, mmfOpens) ==
    IF ~simulated THEN "None" ELSE "Simulated"

\* m_eyeTrackingType: None, then Mmf if the source opens, or Simulated if asked for
SelectEyeTracking(simulated, mmfOpens) ==
    IF ~simulated
    THEN (IF mmfOpens THEN "Mmf" ELSE "None")
    ELSE "Simulated"

\* The body of "if the device changed": identity, eye tracking, optics.
CacheDevice(m, env, hmdInfo) ==
    LET simulated == value_or(env.simulate_eye_tracking, FALSE)
        m1 == Log(m, "getSetting(simulate_eye_tracking)", env.simulate_eye_tracking)
        m2 == IF ~simulated
              THEN Log(m1, "initializeEyeTrackingMmf",
                       IF env.mmfOpens THEN "true" ELSE "false")
              ELSE m1
        eyeTracking == SelectEyeTracking(simulated, env.mmfOpens)
        eyeInfo == [e \in Eyes |-> ovr_GetRenderDesc(e, hmdInfo.DefaultEyeFov[e])]
    IN  [m2 EXCEPT !.rt.m_cachedHmdInfo = hmdInfo,
                   !.rt.m_eyeTrackingType = eyeTracking,
                   !.rt.m_displayRefreshRate = hmdInfo.DisplayRefreshRate,
                   !.rt.m_idealFrameDuration = FrameDuration(hmdInfo.DisplayRefreshRate),
                   !.rt.m_predictedFrameDuration = FrameDuration(hmdInfo.DisplayRefreshRate),
                   !.rt.m_cachedEyeInfo = eyeInfo,
                   !.rt.m_floorHeight = OVR_DEFAULT_EYE_HEIGHT,
                   !.rt.m_cachedEyeFov = EyeFovAngles(eyeInfo)]

\* ovr_SetTrackingOriginType(m_ovrSession, ovrTrackingOrigin_EyeLevel)
SetTrackingOrigin(m, env) ==
    LET res == IF m.rt.m_ovrSession = NULL THEN "ovrError_InvalidSession"
               ELSE env.trackingResult
        m1 == Log(m, "ovr_SetTrackingOriginType(EyeLevel)", res)
    IN  Step([m1 EXCEPT !.ovr.eyeLevel =
                  IF res = "ovrSuccess" THEN @ \cup {m.rt.m_ovrSession} ELSE @],
             CHECK_OVRCMD(res))

initializeSystem(m, env) ==
    LET hmdInfo == ovr_GetHmdDesc(m, env)
        m1 == Log(m, "ovr_GetHmdDesc", hmdInfo.SerialNumber)
        m2 == IF DeviceChanged(m1.rt.m_cachedHmdInfo, hmdInfo)
              THEN CacheDevice(m1, env, hmdInfo)
              ELSE m1
    IN  SetTrackingOrigin(m2, env)

\* ensureOVRSession once no session was found: load LibOVR if needed, create
\* the session, tag it, calibrate, initialise the system.
BringUp(m, env) ==
    LET a == IF ~m.rt.m_isOVRLoaded THEN initializeOVR(m, env) ELSE Step(m, "true")
    IN  IF a.ctl # "true" THEN a
        ELSE LET b == CreateSession(a.m, env)
             IN  IF b.ctl # "next" THEN b
                 ELSE LET c == initializeSystem(Calibrate(TagSession(b.m).m, env).m, env)
                      IN  IF c.ctl # "next" THEN c ELSE Step(c.m, "true")

\* Mutant: the early return for an existing session is missing.
HasSession_Never(r) == FALSE

\* if (m_ovrSession)
HasSession(r) == r.m_ovrSession # NULL

ensureOVRSession(m, env) ==
    IF HasSession(m.rt) THEN Step(m, "true") ELSE BringUp(m, env)

---------------------------------------------------------------------------
(* The API entry points.  Each returns the runtime and LibOVR after the   *)
(* call, the XrResult ("EXCEPTION" when the call raised), what was        *)
(* written to the caller's memory, and the collaborator calls made.       *)

Return(r, o, result, written, trace) ==
    [rt |-> r, ovr |-> o, result |-> result, written |-> written, trace |-> trace]

\* Caller memory before a call: nothing written yet.
NoOutput(a) ==
    [systemId |-> {}, properties |-> {},
     chain |-> IF a.op = "xrGetSystemProperties" THEN a.chain ELSE <<>>,
     countOutput |-> {},
     buffer |-> IF a.op = "xrEnumerateEnvironmentBlendModes" /\ a.hasBuffer
                THEN [i \in 1 .. MaxCapacity |-> Unwritten] ELSE <<>>]

\* Mutant: the structure tag of XrSystemGetInfo is not looked at.
GetInfoTypeValid_Unchecked(a) == TRUE

\* getInfo->type != XR_TYPE_SYSTEM_GET_INFO, negated
GetInfoTypeValid(a) == a.type = "XR_TYPE_SYSTEM_GET_INFO"

\* Mutant: only the token is compared, m_instanceCreated is not read.
InstanceValid_TokenOnly(r, a) == a.instance = InstanceSentinel

\* !m_instanceCreated || instance != (XrInstance)1, negated
InstanceValid(r, a) == r.m_instanceCreated /\ a.instance = InstanceSentinel

\* Mutant: only the token is compared, m_systemCreated is not read.
SystemValid_TokenOnly(r, a) == a.systemId = SystemSentinel

\* !m_systemCreated || systemId != (XrSystemId)1, negated
SystemValid(r, a) == r.m_systemCreated /\ a.systemId = SystemSentinel

\* Mutant: the form factor is not looked at.
FormFactorSupported_Any(a) == TRUE

\* getInfo->formFactor != XR_FORM_FACTOR_HEAD_MOUNTED_DISPLAY, negated
FormFactorSupported(a) == a.formFactor = "XR_FORM_FACTOR_HEAD_MOUNTED_DISPLAY"

xrGetSystem(r, o, a, env) ==
    IF ~GetInfoTypeValid(a)
    THEN Return(r, o, "XR_ERROR_VALIDATION_FAILURE", NoOutput(a), <<>>)
    ELSE IF ~InstanceValid(r, a)
    THEN Return(r, o, "XR_ERROR_HANDLE_INVALID", NoOutput(a), <<>>)
    ELSE IF ~FormFactorSupported(a)
    THEN Return(r, o, "XR_ERROR_FORM_FACTOR_UNSUPPORTED", NoOutput(a), <<>>)
    ELSE LET s == ensureOVRSession(Machine(r, o), env)
         IN  CASE s.ctl = "throw" ->
                    Return(s.m.rt, s.m.ovr, "EXCEPTION", NoOutput(a), s.m.trace)
               [] s.ctl = "false" ->
                    Return([s.m.rt EXCEPT !.m_cachedHmdInfo = EmptyHmdInfo], s.m.ovr,
                           "XR_ERROR_FORM_FACTOR_UNAVAILABLE", NoOutput(a), s.m.trace)
               [] s.ctl = "true" ->
                    Return([s.m.rt EXCEPT !.m_systemCreated = TRUE], s.m.ovr,
                           "XR_SUCCESS",
                           [NoOutput(a) EXCEPT !.systemId = {SystemSentinel}],
                           s.m.trace)

\* Mutant: the scan gives up at the first structure of another kind.
FindInChain_HeadOnly(chain, i, kind) ==
    IF i > Len(chain) THEN NULL
    ELSE IF chain[i].type = kind THEN i
    ELSE NULL

\* while (p) { if (p->type == kind) break; p = p->next; }: the position of the
\* first structure of that kind from position i on, NULL when the chain ends.
RECURSIVE FindInChain(_, _, _)
FindInChain(chain, i, kind) ==
    IF i > Len(chain) THEN NULL
    ELSE IF chain[i].type = kind THEN i
    ELSE FindInChain(chain, i + 1, kind)

\* p->field = value, for the structure at position p of the chain
WriteChain(chain, p, value) == [chain EXCEPT ![p].data = value]

xrGetSystemProperties(r, o, a) ==
    IF a.type # "XR_TYPE_SYSTEM_PROPERTIES"
    THEN Return(r, o, "XR_ERROR_VALIDATION_FAILURE", NoOutput(a), <<>>)
    ELSE IF ~InstanceValid(r, a)
    THEN Return(r, o, "XR_ERROR_HANDLE_INVALID", NoOutput(a), <<>>)
    ELSE IF ~SystemValid(r, a)
    THEN Return(r, o, "XR_ERROR_SYSTEM_INVALID", NoOutput(a), <<>>)
    ELSE LET eyeGazeInteractionProperties ==
                 FindInChain(a.chain, 1, "XR_TYPE_SYSTEM_EYE_GAZE_INTERACTION_PROPERTIES_EXT")
             headsetIdProperties ==
                 FindInChain(a.chain, 1, "XR_TYPE_SYSTEM_HEADSET_ID_PROPERTIES_META")
             properties ==
                 [vendorId |-> r.m_cachedHmdInfo.VendorId,
                  systemName |-> r.m_cachedHmdInfo.ProductName,
                  systemId |-> a.systemId,
                  positionTracking |-> TRUE,
                  orientationTracking |-> TRUE,
                  maxLayerCount |-> ovrMaxLayerCount,
                  maxSwapchainImageWidth |-> MaxSwapchainImageSize,
                  maxSwapchainImageHeight |-> MaxSwapchainImageSize]
             chain1 ==
                 IF r.has_XR_EXT_eye_gaze_interaction /\ eyeGazeInteractionProperties # NULL
                 THEN WriteChain(a.chain, eyeGazeInteractionProperties,
                                 IF r.m_eyeTrackingType # "None" THEN "XR_TRUE" ELSE "XR_FALSE")
                 ELSE a.chain
             chain2 ==
                 IF r.has_XR_META_headset_id /\ headsetIdProperties # NULL
                 THEN WriteChain(chain1, headsetIdProperties, HeadsetUuid)
                 ELSE chain1
         IN  Return(r, o, "XR_SUCCESS",
                    [NoOutput(a) EXCEPT !.properties = {properties}, !.chain = chain2],
                    <<>>)

\* for (i = 0; i < count; i++) buffer[i] = modes[i]
FillBuffer(buffer, modes, count) ==
    [i \in DOMAIN buffer |-> IF i <= count THEN modes[i] ELSE buffer[i]]

\* Mutant: a count query (capacity 0) is answered for any view configuration.
ViewConfigurationSupported_UnlessCounting(a) ==
    a.capacityInput = 0
      \/ a.viewConfigurationType = "XR_VIEW_CONFIGURATION_TYPE_PRIMARY_STEREO"

\* viewConfigurationType != XR_VIEW_CONFIGURATION_TYPE_PRIMARY_STEREO, negated
ViewConfigurationSupported(a) ==
    a.viewConfigurationType = "XR_VIEW_CONFIGURATION_TYPE_PRIMARY_STEREO"

\* Mutant: the buffer is filled whenever one is supplied.
ShouldFill_AnyCapacity(a) == a.hasBuffer

\* environmentBlendModeCapacityInput && environmentBlendModes
ShouldFill(a) == a.capacityInput # 0 /\ a.hasBuffer

xrEnumerateEnvironmentBlendModes(r, o, a) ==
    IF ~InstanceValid(r, a)
    THEN Return(r, o, "XR_ERROR_HANDLE_INVALID", NoOutput(a), <<>>)
    ELSE IF ~SystemValid(r, a)
    THEN Return(r, o, "XR_ERROR_SYSTEM_INVALID", NoOutput(a), <<>>)
    ELSE IF ~ViewConfigurationSupported(a)
    THEN Return(r, o, "XR_ERROR_VIEW_CONFIGURATION_TYPE_UNSUPPORTED", NoOutput(a), <<>>)
    ELSE IF a.capacityInput # 0 /\ a.capacityInput < Len(blendModes)
    THEN Return(r, o, "XR_ERROR_SIZE_INSUFFICIENT", NoOutput(a), <<>>)
    ELSE LET w1 == [NoOutput(a) EXCEPT !.countOutput = {Len(blendModes)}]
             w2 == IF ShouldFill(a)
                   THEN [w1 EXCEPT !.buffer = FillBuffer(@, blendModes, Len(blendModes))]
                   ELSE w1
         IN  Return(r, o, "XR_SUCCESS", w2, <<>>)

---------------------------------------------------------------------------
(* Arguments the application may pass *)

Instances == {InstanceSentinel, InstanceSentinel + 1}
SystemIds == {SystemSentinel, SystemSentinel + 1}

ChainKinds == {"XR_TYPE_SYSTEM_EYE_GAZE_INTERACTION_PROPERTIES_EXT",
               "XR_TYPE_SYSTEM_HEADSET_ID_PROPERTIES_META",
               "XR_TYPE_UNKNOWN"}

\* every chain of at most MaxChain structures, none written yet
Chains ==
    UNION { [1 .. n -> [type : ChainKinds, data : {Unwritten}]] : n \in 0 .. MaxChain }

GetSystemArgs ==
    [op : {"xrGetSystem"},
     type : {"XR_TYPE_SYSTEM_GET_INFO", "XR_TYPE_UNKNOWN"},
     instance : Instances,
     formFactor : {"XR_FORM_FACTOR_HEAD_MOUNTED_DISPLAY", "XR_FORM_FACTOR_HANDHELD_DISPLAY"}]

\* A well-addressed call is tried with every chain, any other with two.
GetSystemPropertiesArgs ==
    { a \in [op : {"xrGetSystemProperties"},
             type : {"XR_TYPE_SYSTEM_PROPERTIES", "XR_TYPE_UNKNOWN"},
             instance : Instances,
             systemId : SystemIds,
             chain : Chains] :
        \/ a.type = "XR_TYPE_SYSTEM_PROPERTIES" /\ a.instance = InstanceSentinel
             /\ a.systemId = SystemSentinel
        \/ Len(a.chain) = 0
        \/ /\ Len(a.chain) = 2
           /\ a.chain[1].type = "XR_TYPE_SYSTEM_EYE_GAZE_INTERACTION_PROPERTIES_EXT"
           /\ a.chain[2].type = "XR_TYPE_SYSTEM_HEADSET_ID_PROPERTIES_META" }

\* A call with the sentinel handles is tried with every capacity and buffer,
\* any other with a buffer and the smallest and largest capacity.
EnumerateArgs ==
    { a \in [op : {"xrEnumerateEnvironmentBlendModes"},
             instance : Instances,
             systemId : SystemIds,
             viewConfigurationType : {"XR_VIEW_CONFIGURATION_TYPE_PRIMARY_STEREO",
                                      "XR_VIEW_CONFIGURATION_TYPE_PRIMARY_MONO"},
             capacityInput : 0 .. MaxCapacity,
             hasBuffer : BOOLEAN] :
        \/ a.instance = InstanceSentinel /\ a.systemId = SystemSentinel
        \/ a.hasBuffer /\ a.capacityInput \in {0, MaxCapacity} }

---------------------------------------------------------------------------
(* The state machine: one API call per step, calls serialized by the host *)

\* the application threads of the interleaved specification
Threads == {1, 2}

Snapshot(r, o) == [rt |-> r, ovr |-> o]

Output(ret) == [result |-> ret.result, written |-> ret.written, trace |-> ret.trace]

Init ==
    /\ \E i \in BOOLEAN, g \in BOOLEAN, h \in BOOLEAN : rt = InitialRuntime(i, g, h)
    /\ ovr = InitialOvr
    /\ pre = Snapshot(rt, ovr)
    /\ call = [op |-> "none"]
    /\ out = [result |-> "none", written |-> NoOutput([op |-> "none"]), trace |-> <<>>]
    /\ pc = [t \in Threads |-> "idle"]
    /\ tret = [t \in Threads |-> "none"]

\* What every API call does to the model's variables, given what it returned.
Returned(a, ret) ==
    /\ pre' = Snapshot(rt, ovr)
    /\ call' = a
    /\ rt' = ret.rt
    /\ ovr' = ret.ovr
    /\ out' = Output(ret)
    /\ UNCHANGED <<pc, tret>>

\* The environments that can make a difference to xrGetSystem(r, o, a, _).
AskedEnvs(r, a) ==
    IF /\ a.type = "XR_TYPE_SYSTEM_GET_INFO" /\ a.instance = InstanceSentinel
       /\ a.formFactor = "XR_FORM_FACTOR_HEAD_MOUNTED_DISPLAY"
       /\ r.m_instanceCreated /\ r.m_ovrSession = NULL
    THEN (IF r.m_isOVRLoaded THEN LoadedEnvs ELSE Envs)
    ELSE {BaseEnv}

\* The call as recorded: its arguments and the environment it ran in.
WithEnv(a, env) ==
    [op |-> a.op, type |-> a.type, instance |-> a.instance, formFactor |-> a.formFactor,
     env |-> env]

GetSystem ==
    /\ ovr.created < MaxSessions
    /\ \E a \in GetSystemArgs :
          \E env \in AskedEnvs(rt, a) :
              Returned(WithEnv(a, env), xrGetSystem(rt, ovr, a, env))

GetSystemProperties ==
    \E a \in GetSystemPropertiesArgs : Returned(a, xrGetSystemProperties(rt, ovr, a))

EnumerateEnvironmentBlendModes ==
    \E a \in EnumerateArgs : Returned(a, xrEnumerateEnvironmentBlendModes(rt, ovr, a))

Next == GetSystem \/ GetSystemProperties \/ EnumerateEnvironmentBlendModes

Spec == Init /\ [][Next]_vars

---------------------------------------------------------------------------
(* Two xrGetSystem calls in flight: the same code, one statement group per *)
(* step, with no lock taken (system.cpp takes none).  The calls carry      *)
(* valid arguments; pc[t] is the place thread t has reached.               *)

\* The environments the interleaved calls meet: BaseEnv with one answer varied,
\* the answer the step asks for.
Vary(field, answers) == { [BaseEnv EXCEPT ![field] = v] : v \in answers }

ProbeEnvs ==
    Vary("serviceRunning", {TRUE})
      \cup { [BaseEnv EXCEPT !.serviceRunning = FALSE, !.allow_oculus_runtime = a] :
               a \in Settings }

\* Thread t moves to place p, the shared objects becoming those of machine m.
Goto(t, p, m) ==
    /\ rt' = m.rt
    /\ ovr' = m.ovr
    /\ pc' = [pc EXCEPT ![t] = p]
    /\ UNCHANGED <<pre, call, out, tret>>

\* Thread t leaves xrGetSystem with a result.
Leave(t, result, m) ==
    /\ rt' = m.rt
    /\ ovr' = m.ovr
    /\ pc' = [pc EXCEPT ![t] = "idle"]
    /\ tret' = [tret EXCEPT ![t] = result]
    /\ UNCHANGED <<pre, call, out>>

\* xrGetSystem entered; type, handle and form factor checks pass.
ThreadEnter(t) ==
    /\ pc[t] = "idle"
    /\ rt.m_instanceCreated
    /\ Goto(t, "ensure", Machine(rt, ovr))

\* ensureOVRSession: if (m_ovrSession) return true; if (!m_isOVRLoaded) ...
ThreadCheckSession(t) ==
    /\ pc[t] = "ensure"
    /\ Goto(t, IF HasSession(rt) THEN "markSystem"
               ELSE IF ~rt.m_isOVRLoaded THEN "probe" ELSE "create",
            Machine(rt, ovr))

\* Where a step of the bring-up leaves thread t.
After(t, s, onward) ==
    CASE s.ctl = "throw" -> Leave(t, "EXCEPTION", s.m)
      [] s.ctl = "false" -> Goto(t, "unavailable", s.m)
      [] OTHER -> Goto(t, onward, s.m)

ThreadProbe(t) ==
    /\ pc[t] = "probe"
    /\ \E env \in ProbeEnvs : After(t, ProbeService(Machine(rt, ovr), env), "load")

ThreadLoad(t) ==
    /\ pc[t] = "load"
    /\ \E env \in Vary("initResult", OvrInitResults) : After(t, LoadLibOVR(Machine(rt, ovr), env), "markLoaded")

ThreadMarkLoaded(t) ==
    /\ pc[t] = "markLoaded"
    /\ After(t, MarkLoaded(Machine(rt, ovr)), "create")

ThreadCreate(t) ==
    /\ pc[t] = "create"
    /\ ovr.created < MaxSessions
    /\ \E env \in Vary("createResult", OvrCreateResults) : After(t, CreateSession(Machine(rt, ovr), env), "tag")

ThreadTag(t) ==
    /\ pc[t] = "tag"
    /\ After(t, TagSession(Machine(rt, ovr)), "calibrate")

ThreadCalibrate(t) ==
    /\ pc[t] = "calibrate"
    /\ After(t, Calibrate(Machine(rt, ovr), BaseEnv), "initSystem")

ThreadInitializeSystem(t) ==
    /\ pc[t] = "initSystem"
    /\ \E env \in Vary("trackingResult", OvrTrackingResults) :
          After(t, initializeSystem(Machine(rt, ovr), env), "markSystem")

\* m_systemCreated = true; *systemId = 1; return XR_SUCCESS
ThreadMarkSystem(t) ==
    /\ pc[t] = "markSystem"
    /\ Leave(t, "XR_SUCCESS", Machine([rt EXCEPT !.m_systemCreated = TRUE], ovr))

\* m_cachedHmdInfo = {}; return XR_ERROR_FORM_FACTOR_UNAVAILABLE
ThreadUnavailable(t) ==
    /\ pc[t] = "unavailable"
    /\ Leave(t, "XR_ERROR_FORM_FACTOR_UNAVAILABLE",
             Machine([rt EXCEPT !.m_cachedHmdInfo = EmptyHmdInfo], ovr))

NextConc ==
    \E t \in Threads :
        \/ ThreadEnter(t)
        \/ ThreadCheckSession(t)
        \/ ThreadProbe(t)
        \/ ThreadLoad(t)
        \/ ThreadMarkLoaded(t)
        \/ ThreadCreate(t)
        \/ ThreadTag(t)
        \/ ThreadCalibrate(t)
        \/ ThreadInitializeSystem(t)
        \/ ThreadMarkSystem(t)
        \/ ThreadUnavailable(t)

\* The instance exists and both extensions are enabled.
InitConc == Init /\ rt = InitialRuntime(TRUE, TRUE, TRUE)

SpecConc == InitConc /\ [][NextConc]_vars

---------------------------------------------------------------------------
(* Properties.  Each speaks of the last API call: its arguments (call),    *)
(* the runtime before it (pre) and after it (rt, ovr), and its results.    *)

ValidGetSystemCall ==
    /\ call.op = "xrGetSystem"
    /\ call.type = "XR_TYPE_SYSTEM_GET_INFO"
    /\ call.instance = 1
    /\ call.formFactor = "XR_FORM_FACTOR_HEAD_MOUNTED_DISPLAY"
    /\ pre.rt.m_instanceCreated

RuntimeUntouched == rt = pre.rt /\ ovr = pre.ovr

NothingWritten ==
    /\ out.written.systemId = {}
    /\ out.written.properties = {}
    /\ out.written.countOutput = {}
    /\ \A i \in DOMAIN out.written.chain : out.written.chain[i].data = "unwritten"
    /\ \A i \in DOMAIN out.written.buffer : out.written.buffer[i] = "unwritten"

\* C1: xrGetSystem and xrGetSystemProperties given a descriptor whose structure
\* tag is not the expected one return XR_ERROR_VALIDATION_FAILURE and leave the
\* runtime and the backend exactly as they were, whatever the other arguments
\* and the prior state.
C1_WrongTagRejected ==
    (\/ call.op = "xrGetSystem" /\ call.type # "XR_TYPE_SYSTEM_GET_INFO"
     \/ call.op = "xrGetSystemProperties" /\ call.type # "XR_TYPE_SYSTEM_PROPERTIES")
    => /\ out.result = "XR_ERROR_VALIDATION_FAILURE"
       /\ RuntimeUntouched
       /\ out.trace = <<>>

\* A wrongly tagged xrGetSystem that was otherwise ready to start bring-up.
C1_Witness ==
    /\ call.op = "xrGetSystem" /\ call.type # "XR_TYPE_SYSTEM_GET_INFO"
    /\ call.instance = 1 /\ call.formFactor = "XR_FORM_FACTOR_HEAD_MOUNTED_DISPLAY"
    /\ pre.rt.m_instanceCreated /\ pre.rt.m_ovrSession = 0
    /\ out.result = "XR_ERROR_VALIDATION_FAILURE"

\* C2: a valid xrGetSystem made after one has succeeded returns XR_SUCCESS and
\* system id 1 without calling any collaborator, and leaves the runtime and the
\* backend (session, time reference, calibration offset) as they were; every
\* session there is has been calibrated exactly once.
C2_SecondAcquireFastPath ==
    /\ (ValidGetSystemCall /\ pre.rt.m_systemCreated)
         => /\ out.result = "XR_SUCCESS"
            /\ out.written.systemId = {1}
            /\ out.trace = <<>>
            /\ RuntimeUntouched
    /\ \A s \in 1 .. ovr.created :
         Cardinality({ i \in DOMAIN ovr.calibrated : ovr.calibrated[i] = s }) = 1
    /\ Len(ovr.calibrated) = ovr.created

\* A second successful xrGetSystem on a calibrated session.
C2_Witness ==
    /\ ValidGetSystemCall /\ pre.rt.m_systemCreated
    /\ out.result = "XR_SUCCESS" /\ ovr.calibrated = <<rt.m_ovrSession>>
    /\ rt.m_ovrTimeFromQpcTimeOffset = -2

\* An xrGetSystem that starts a bring-up from nothing: valid arguments, no
\* session, LibOVR not loaded.
FreshBringUp ==
    ValidGetSystemCall /\ pre.rt.m_ovrSession = 0 /\ ~pre.rt.m_isOVRLoaded

\* C3: when the probe finds the primary service not running and
\* allow_oculus_runtime is explicitly false, xrGetSystem returns
\* XR_ERROR_FORM_FACTOR_UNAVAILABLE having called neither ovr_Initialize nor
\* ovr_Create, with no session and the system not marked created; when the
\* setting is absent the fallback is taken and LibOVR is initialised with no
\* override path.
C3_NoFallbackNoBringUp ==
    (FreshBringUp /\ ~call.env.serviceRunning)
    => /\ call.env.allow_oculus_runtime = "false"
          => /\ out.result = "XR_ERROR_FORM_FACTOR_UNAVAILABLE"
             /\ \A i \in DOMAIN out.trace :
                  out.trace[i].fn \in {"IsServiceRunning", "getSetting(allow_oculus_runtime)"}
             /\ ovr = pre.ovr
             /\ rt.m_ovrSession = 0
             /\ ~rt.m_isOVRLoaded
             /\ ~rt.m_systemCreated
       /\ call.env.allow_oculus_runtime = "absent"
          => /\ rt.m_useOculusRuntime
             /\ \E i \in DOMAIN out.trace : out.trace[i].fn = "ovr_Initialize(nullptr)"

\* The refusal: service not running, fallback explicitly disallowed.
C3_Witness ==
    /\ FreshBringUp /\ ~call.env.serviceRunning
    /\ call.env.allow_oculus_runtime = "false"
    /\ out.result = "XR_ERROR_FORM_FACTOR_UNAVAILABLE"

\* C4: after an xrGetSystem that yields no system because bring-up failed
\* (form factor unavailable, or a fatal backend error), the cached device
\* identity is empty, no session is referenced, and the calibration is as it
\* was before the call.
C4_FailedAcquireLeavesNothing ==
    (call.op = "xrGetSystem"
       /\ out.result \in {"XR_ERROR_FORM_FACTOR_UNAVAILABLE", "EXCEPTION"})
    => /\ rt.m_cachedHmdInfo = EmptyHmdInfo
       /\ rt.m_ovrSession = 0
       /\ rt.m_ovrTimeFromQpcTimeOffset = pre.rt.m_ovrTimeFromQpcTimeOffset

\* C5: whenever the system is marked created, the instance is created and
\* exactly one backend session exists, the one m_ovrSession refers to.
C5_SystemImpliesInstanceAndSession ==
    rt.m_systemCreated
    => /\ rt.m_instanceCreated
       /\ rt.m_ovrSession # 0
       /\ 1 .. ovr.created = {rt.m_ovrSession}

\* The system marked created by a call that followed a fatally aborted one.
C5_Witness ==
    /\ rt.m_systemCreated
    /\ ValidGetSystemCall /\ ~pre.rt.m_systemCreated /\ pre.rt.m_ovrSession # 0

\* An xrEnumerateEnvironmentBlendModes call whose handles are both accepted.
EnumerateOnSystem ==
    /\ call.op = "xrEnumerateEnvironmentBlendModes"
    /\ pre.rt.m_instanceCreated /\ call.instance = 1
    /\ pre.rt.m_systemCreated /\ call.systemId = 1

\* Slots of the caller's buffer from position i on are as the caller left them.
BufferUntouchedFrom(i) ==
    \A j \in DOMAIN out.written.buffer : j >= i => out.written.buffer[j] = "unwritten"

\* C6: with accepted handles and the primary stereo configuration the call
\* follows the two-call pattern for a required count of 1: capacity 0 gives
\* success and count 1 and writes no item; a non-zero capacity below 1 gives
\* XR_ERROR_SIZE_INSUFFICIENT and writes nothing; capacity >= 1 gives success
\* and count 1, and with a buffer writes Opaque to its first slot and nothing
\* to the others, without a buffer writes no item.
C6_TwoCallEnumeration ==
    (EnumerateOnSystem
       /\ call.viewConfigurationType = "XR_VIEW_CONFIGURATION_TYPE_PRIMARY_STEREO")
    => /\ call.capacityInput = 0
          => /\ out.result = "XR_SUCCESS"
             /\ out.written.countOutput = {1}
             /\ BufferUntouchedFrom(1)
       /\ (call.capacityInput # 0 /\ call.capacityInput < 1)
          => /\ out.result = "XR_ERROR_SIZE_INSUFFICIENT"
             /\ NothingWritten
       /\ (call.capacityInput >= 1 /\ call.hasBuffer)
          => /\ out.result = "XR_SUCCESS"
             /\ out.written.countOutput = {1}
             /\ out.written.buffer[1] = "XR_ENVIRONMENT_BLEND_MODE_OPAQUE"
             /\ BufferUntouchedFrom(2)
       /\ (call.capacityInput >= 1 /\ ~call.hasBuffer)
          => /\ out.result = "XR_SUCCESS"
             /\ out.written.countOutput = {1}
             /\ out.written.buffer = <<>>

\* A count query made with a buffer in hand, answered without touching it.
C6_Witness ==
    /\ EnumerateOnSystem
    /\ call.viewConfigurationType = "XR_VIEW_CONFIGURATION_TYPE_PRIMARY_STEREO"
    /\ call.capacityInput = 0 /\ call.hasBuffer
    /\ out.result = "XR_SUCCESS" /\ out.written.countOutput = {1}
    /\ Len(out.written.buffer) >= 1 /\ BufferUntouchedFrom(1)

\* An xrGetSystemProperties call that passes every check.
PropertiesOnSystem ==
    /\ call.op = "xrGetSystemProperties"
    /\ call.type = "XR_TYPE_SYSTEM_PROPERTIES"
    /\ pre.rt.m_instanceCreated /\ call.instance = 1
    /\ pre.rt.m_systemCreated /\ call.systemId = 1

\* Structure i is the first of its kind in the chain passed in.
FirstOfKind(i) ==
    \A j \in 1 .. (i - 1) : call.chain[j].type # call.chain[i].type

\* C7: xrGetSystemProperties on an acquired system succeeds and, whatever the
\* chain, populates the first eye-gaze structure (if the extension is enabled)
\* and the first headset-id structure (if that extension is enabled), wherever
\* they stand, and leaves every other structure as it was.
C7_ChainScan ==
    PropertiesOnSystem
    => /\ out.result = "XR_SUCCESS"
       /\ Len(out.written.chain) = Len(call.chain)
       /\ \A i \in DOMAIN call.chain :
            /\ out.written.chain[i].type = call.chain[i].type
            /\ out.written.chain[i].data =
                 (CASE call.chain[i].type = "XR_TYPE_SYSTEM_EYE_GAZE_INTERACTION_PROPERTIES_EXT"
                         /\ FirstOfKind(i) /\ rt.has_XR_EXT_eye_gaze_interaction
                       -> IF rt.m_eyeTrackingType = "None" THEN "XR_FALSE" ELSE "XR_TRUE"
                    [] call.chain[i].type = "XR_TYPE_SYSTEM_HEADSET_ID_PROPERTIES_META"
                         /\ FirstOfKind(i) /\ rt.has_XR_META_headset_id
                       -> "525078a5-5aab-4dc9-b802-1ebd6c7cfff4"
                    [] OTHER -> "unwritten")

\* A recognized structure populated behind an unrecognized one.
C7_Witness ==
    /\ PropertiesOnSystem
    /\ Len(call.chain) = 2
    /\ call.chain[1].type = "XR_TYPE_UNKNOWN"
    /\ call.chain[2].type = "XR_TYPE_SYSTEM_EYE_GAZE_INTERACTION_PROPERTIES_EXT"
    /\ out.written.chain[1].data = "unwritten"
    /\ out.written.chain[2].data = "XR_TRUE"

\* C8: with two xrGetSystem calls in flight at once, at most one backend
\* session is ever created, the session the runtime refers to is never
\* replaced or dropped once created, and calibration runs at most once.
C8_OneSessionUnderRace ==
    /\ ovr.created <= 1
    /\ ovr.created = 1 => rt.m_ovrSession = 1
    /\ Len(ovr.calibrated) <= 1

\* A system-scoped call with a well-formed descriptor.
SystemScopedCall ==
    \/ call.op = "xrGetSystemProperties" /\ call.type = "XR_TYPE_SYSTEM_PROPERTIES"
    \/ call.op = "xrEnumerateEnvironmentBlendModes"

\* C9: a system-scoped call with the instance accepted but no system acquired
\* yet, or a system token other than 1, returns XR_ERROR_SYSTEM_INVALID; with
\* the instance missing or its token wrong it returns XR_ERROR_HANDLE_INVALID
\* whatever the system token; either way nothing is written to the caller's
\* memory and the runtime is untouched.
C9_SystemScopedRejected ==
    SystemScopedCall
    => /\ (pre.rt.m_instanceCreated /\ call.instance = 1
             /\ (~pre.rt.m_systemCreated \/ call.systemId # 1))
          => /\ out.result = "XR_ERROR_SYSTEM_INVALID"
             /\ NothingWritten
             /\ RuntimeUntouched
       /\ (~pre.rt.m_instanceCreated \/ call.instance # 1)
          => /\ out.result = "XR_ERROR_HANDLE_INVALID"
             /\ NothingWritten
             /\ RuntimeUntouched

\* The right tokens, a chain to fill, and no system acquired yet.
C9_Witness ==
    /\ call.op = "xrGetSystemProperties" /\ call.type = "XR_TYPE_SYSTEM_PROPERTIES"
    /\ pre.rt.m_instanceCreated /\ call.instance = 1
    /\ ~pre.rt.m_systemCreated /\ call.systemId = 1
    /\ Len(call.chain) = 2
    /\ out.result = "XR_ERROR_SYSTEM_INVALID"

\* C10: xrEnumerateEnvironmentBlendModes reports the first failing check in
\* the order handle, system, view configuration, size; with accepted handles
\* any configuration but primary stereo is refused for every capacity; and a
\* call that fails writes neither the count nor the buffer.
C10_EnumerateErrorPrecedence ==
    call.op = "xrEnumerateEnvironmentBlendModes"
    => /\ out.result =
            (CASE ~pre.rt.m_instanceCreated \/ call.instance # 1
                    -> "XR_ERROR_HANDLE_INVALID"
               [] pre.rt.m_instanceCreated /\ call.instance = 1
                    /\ (~pre.rt.m_systemCreated \/ call.systemId # 1)
                    -> "XR_ERROR_SYSTEM_INVALID"
               [] EnumerateOnSystem
                    /\ call.viewConfigurationType # "XR_VIEW_CONFIGURATION_TYPE_PRIMARY_STEREO"
                    -> "XR_ERROR_VIEW_CONFIGURATION_TYPE_UNSUPPORTED"
               [] EnumerateOnSystem
                    /\ call.viewConfigurationType = "XR_VIEW_CONFIGURATION_TYPE_PRIMARY_STEREO"
                    /\ call.capacityInput # 0 /\ call.capacityInput < 1
                    -> "XR_ERROR_SIZE_INSUFFICIENT"
               [] OTHER -> "XR_SUCCESS")
       /\ out.result # "XR_SUCCESS" => NothingWritten /\ RuntimeUntouched

\* A count query for an unsupported view configuration on an acquired system.
C10_Witness ==
    /\ EnumerateOnSystem
    /\ call.viewConfigurationType # "XR_VIEW_CONFIGURATION_TYPE_PRIMARY_STEREO"
    /\ call.capacityInput = 0
    /\ out.result = "XR_ERROR_VIEW_CONFIGURATION_TYPE_UNSUPPORTED"

\* C11: an xrGetSystem call with a wrong structure tag, a missing or mismatched
\* instance, or a form factor other than head-mounted display reports the first
\* failing check in the order tag, instance, form factor, calls no collaborator
\* (no probe, no ovr_Initialize, no ovr_Create), writes nothing and changes
\* nothing; xrGetSystemProperties and xrEnumerateEnvironmentBlendModes call no
\* collaborator and change nothing in any case.
C11_MalformedNeverStartsBringUp ==
    /\ (call.op = "xrGetSystem" /\ ~ValidGetSystemCall)
         => /\ out.result =
                 (CASE call.type # "XR_TYPE_SYSTEM_GET_INFO"
                         -> "XR_ERROR_VALIDATION_FAILURE"
                    [] call.type = "XR_TYPE_SYSTEM_GET_INFO"
                         /\ (~pre.rt.m_instanceCreated \/ call.instance # 1)
                         -> "XR_ERROR_HANDLE_INVALID"
                    [] OTHER -> "XR_ERROR_FORM_FACTOR_UNSUPPORTED")
            /\ out.trace = <<>>
            /\ NothingWritten
            /\ RuntimeUntouched
    /\ call.op \in {"xrGetSystemProperties", "xrEnumerateEnvironmentBlendModes"}
         => /\ out.trace = <<>>
            /\ RuntimeUntouched

\* A call wrong in two ways, on a runtime ready to start bring-up: the instance
\* check answers before the form factor is looked at.
C11_Witness ==
    /\ call.op = "xrGetSystem" /\ call.type = "XR_TYPE_SYSTEM_GET_INFO"
    /\ pre.rt.m_instanceCreated /\ call.instance # 1
    /\ call.formFactor # "XR_FORM_FACTOR_HEAD_MOUNTED_DISPLAY"
    /\ pre.rt.m_ovrSession = 0 /\ ~pre.rt.m_isOVRLoaded
    /\ out.result = "XR_ERROR_HANDLE_INVALID"

\* The positions in the last call's trace of the collaborator calls named fns.
Called(fns) == { i \in DOMAIN out.trace : out.trace[i].fn \in fns }

\* Both groups of collaborator calls were made, all of the first before the second.
InOrder(first, second) ==
    /\ Called(first) # {}
    /\ Called(second) # {}
    /\ \A i \in Called(first), j \in Called(second) : i < j

\* The two forms of ovr_InitializeWithPathOverride.
InitializeCalls == {"ovr_Initialize(overridePath)", "ovr_Initialize(nullptr)"}

\* C12: every xrGetSystem that returns the system id finds LibOVR initialised
\* and the session the runtime refers to created, calibrated and set to the
\* eye-level tracking origin; and when the call itself brings the session up
\* it does so in the order probe and ovr_Initialize, ovr_Create, calibration,
\* ovr_GetHmdDesc, ovr_SetTrackingOriginType.
C12_HandleOnlyAfterCompleteBringUp ==
    (call.op = "xrGetSystem" /\ out.result = "XR_SUCCESS")
    => /\ ovr.initialized
       /\ rt.m_ovrSession # 0
       /\ \E i \in DOMAIN ovr.calibrated : ovr.calibrated[i] = rt.m_ovrSession
       /\ rt.m_ovrSession \in ovr.eyeLevel
       /\ out.trace # <<>>
            => /\ ~pre.rt.m_isOVRLoaded
                    => /\ InOrder({"IsServiceRunning"}, InitializeCalls)
                       /\ InOrder(InitializeCalls, {"ovr_Create"})
               /\ InOrder({"ovr_Create"}, {"QueryPerformanceFrequency"})
               /\ InOrder({"QueryPerformanceFrequency"}, {"ovr_GetHmdDesc"})
               /\ InOrder({"ovr_GetHmdDesc"}, {"ovr_SetTrackingOriginType(EyeLevel)"})

\* One of the collaborator calls named fns answered res during the last call.
Answered(fns, res) == \E i \in Called(fns) : out.trace[i].res = res

\* One of the collaborator calls named fns gave an answer outside expected.
AnsweredOutside(fns, expected) == \E i \in Called(fns) : out.trace[i].res \notin expected

\* C13: during a valid xrGetSystem, ovr_Initialize answering ovrError_LibLoad,
\* ovrError_ServiceConnection or ovrError_RemoteSession gives
\* XR_ERROR_FORM_FACTOR_UNAVAILABLE with ovr_Create not called and LibOVR left
\* marked not loaded; ovr_Create answering ovrError_NoHmd gives
\* XR_ERROR_FORM_FACTOR_UNAVAILABLE; any other failure of either raises out of
\* the call, which then returns neither that code nor success, writes no
\* system id and leaves the system not marked created.
C13_BackendFailureMapping ==
    ValidGetSystemCall
    => /\ \A res \in {"ovrError_LibLoad", "ovrError_ServiceConnection",
                      "ovrError_RemoteSession"} :
            Answered(InitializeCalls, res)
            => /\ out.result = "XR_ERROR_FORM_FACTOR_UNAVAILABLE"
               /\ Called({"ovr_Create"}) = {}
               /\ ovr.created = pre.ovr.created
               /\ ~rt.m_isOVRLoaded
       /\ Answered({"ovr_Create"}, "ovrError_NoHmd")
            => out.result = "XR_ERROR_FORM_FACTOR_UNAVAILABLE"
       /\ (\/ AnsweredOutside(InitializeCalls,
                              {"ovrSuccess", "ovrError_LibLoad",
                               "ovrError_ServiceConnection", "ovrError_RemoteSession"})
           \/ AnsweredOutside({"ovr_Create"}, {"ovrSuccess", "ovrError_NoHmd"}))
            => /\ out.result = "EXCEPTION"
               /\ out.written.systemId = {}
               /\ ~rt.m_systemCreated

\* ovr_Initialize reporting a remote session: unavailable, nothing created.
C13_Witness ==
    /\ ValidGetSystemCall
    /\ Answered(InitializeCalls, "ovrError_RemoteSession")
    /\ out.result = "XR_ERROR_FORM_FACTOR_UNAVAILABLE"
    /\ ~rt.m_isOVRLoaded /\ ovr.created = 0

\* The last call was a valid xrGetSystem during which ovr_Create made a session.
CreatedSession == ValidGetSystemCall /\ ovr.created = pre.ovr.created + 1

\* C14 as claimed: a session created on the fallback backend (service not
\* running, fallback allowed) is given the "IsVDXR" flag during its bring-up.
C14_FallbackSessionTagged ==
    (FreshBringUp /\ CreatedSession /\ ~call.env.serviceRunning)
    => /\ rt.m_ovrSession \in ovr.isVDXR
       /\ InOrder({"ovr_Create"}, {"ovr_SetBool(IsVDXR)"})

\* C14 as amended: a session created on the primary backend (Virtual Desktop's
\* LibOVR, chosen when the probe found the service running) is given the
\* "IsVDXR" flag right after ovr_Create and before calibration; a session
\* created on the fallback backend is never given it.
C14_PrimarySessionTagged ==
    CreatedSession
    => /\ ~pre.rt.m_isOVRLoaded => rt.m_useOculusRuntime = ~call.env.serviceRunning
       /\ pre.rt.m_isOVRLoaded => rt.m_useOculusRuntime = pre.rt.m_useOculusRuntime
       /\ ~rt.m_useOculusRuntime
            => /\ rt.m_ovrSession \in ovr.isVDXR
               /\ InOrder({"ovr_Create"}, {"ovr_SetBool(IsVDXR)"})
               /\ InOrder({"ovr_SetBool(IsVDXR)"}, {"QueryPerformanceFrequency"})
       /\ rt.m_useOculusRuntime
            => /\ rt.m_ovrSession \notin ovr.isVDXR
               /\ Called({"ovr_SetBool(IsVDXR)"}) = {}

\* A session brought up on Virtual Desktop's LibOVR, tagged, the call succeeding.
C14_Witness ==
    /\ FreshBringUp /\ CreatedSession /\ call.env.serviceRunning
    /\ out.result = "XR_SUCCESS"
    /\ rt.m_ovrSession \in ovr.isVDXR

\* C15: every valid xrGetSystem that finds no session starts with the service
\* probe, also when it follows an attempt that initialised LibOVR and then
\* found no device; and a session it creates is on the backend that the
\* service state of that very attempt selects.
C15_EveryAttemptProbes ==
    (ValidGetSystemCall /\ pre.rt.m_ovrSession = 0)
    => /\ Called({"IsServiceRunning"}) = {1}
       /\ CreatedSession => rt.m_useOculusRuntime = ~call.env.serviceRunning

\* What round i of a calibration in environment env samples: the backend clock
\* minus the host counter divided by its frequency.
RawOffset(env, i) == OvrTimeAt(env, i) - (QpcNow(env, i) \div env.qpcFrequency)

\* C16: the offset stored by a bring-up is the minimum of the 100 raw offsets
\* sampled: no round's raw offset is below it and some round's equals it; the
\* jitter being non-negative, it is not below the true offset and equals the
\* true offset plus the smallest jitter of the 100 rounds.
C16_CalibrationIsMinimum ==
    (ValidGetSystemCall /\ Called({"QueryPerformanceFrequency"}) # {})
    => LET env == call.env
           offset == rt.m_ovrTimeFromQpcTimeOffset
       IN  /\ \A i \in 0 .. 99 : offset <= RawOffset(env, i)
           /\ \E i \in 0 .. 99 : offset = RawOffset(env, i)
           /\ (\A i \in 0 .. 99 : Jitter(env.clock.jitter, i) >= 0)
                => /\ offset >= env.clock.trueOffset
                   /\ \E i \in 0 .. 99 :
                        /\ offset = env.clock.trueOffset + Jitter(env.clock.jitter, i)
                        /\ \A j \in 0 .. 99 :
                             Jitter(env.clock.jitter, i) <= Jitter(env.clock.jitter, j)

\* A calibration whose smallest sample is the one of the last round.
C16_Witness ==
    /\ ValidGetSystemCall /\ Called({"QueryPerformanceFrequency"}) # {}
    /\ call.env.clock = [trueOffset |-> 2, jitter |-> 2]
    /\ rt.m_ovrTimeFromQpcTimeOffset = 3
    /\ out.result = "XR_SUCCESS"

\* What initializeSystem keeps of the device: identity, optics, timing, eye tracking.
DeviceCache(r) ==
    [identity |-> r.m_cachedHmdInfo,
     eyeInfo |-> r.m_cachedEyeInfo,
     eyeFov |-> r.m_cachedEyeFov,
     refreshRate |-> r.m_displayRefreshRate,
     idealFrameDuration |-> r.m_idealFrameDuration,
     predictedFrameDuration |-> r.m_predictedFrameDuration,
     eyeTracking |-> r.m_eyeTrackingType]

\* The last call was a valid xrGetSystem whose bring-up reached initializeSystem.
ReachedInitializeSystem == ValidGetSystemCall /\ Called({"ovr_GetHmdDesc"}) # {}

C18_FirstBringUpCachesDevice ==
    (ReachedInitializeSystem /\ out.result = "XR_SUCCESS"
       /\ pre.rt.m_cachedHmdInfo.SerialNumber = "" /\ pre.rt.m_cachedHmdInfo.ProductName = "")
    => LET d == call.env.hmd
       IN  /\ rt.m_cachedHmdInfo = d
           /\ rt.m_displayRefreshRate = d.DisplayRefreshRate
           /\ rt.m_idealFrameDuration = 1000000 \div d.DisplayRefreshRate
           /\ rt.m_predictedFrameDuration = 1000000 \div d.DisplayRefreshRate
           /\ \A e \in {"Left", "Right"} : rt.m_cachedEyeInfo[e].Fov = d.DefaultEyeFov[e]
           /\ Called({"getSetting(simulate_eye_tracking)"}) # {}

\* The eye-gaze structures of the chain passed to the last call.
EyeGazeStructures ==
    { i \in DOMAIN call.chain :
        call.chain[i].type = "XR_TYPE_SYSTEM_EYE_GAZE_INTERACTION_PROPERTIES_EXT" }

\* C19: when initializeSystem finds the serial number changed, the
\* eye-tracking mode becomes Simulated if simulate_eye_tracking is true, the
\* shared-memory source then not being opened; otherwise the source is opened
\* and the mode becomes Mmf if that succeeds and None if it fails.  And
\* xrGetSystemProperties, given an eye-gaze structure with the extension
\* enabled, reports support as true exactly when the mode is not None.
C19_EyeTrackingMode ==
    /\ (ReachedInitializeSystem
          /\ call.env.hmd.SerialNumber # pre.rt.m_cachedHmdInfo.SerialNumber)
         => /\ call.env.simulate_eye_tracking = "true"
                 => /\ rt.m_eyeTrackingType = "Simulated"
                    /\ Called({"initializeEyeTrackingMmf"}) = {}
            /\ call.env.simulate_eye_tracking # "true"
                 => /\ Called({"initializeEyeTrackingMmf"}) # {}
                    /\ Answered({"initializeEyeTrackingMmf"}, "true")
                         => rt.m_eyeTrackingType = "Mmf"
                    /\ Answered({"initializeEyeTrackingMmf"}, "false")
                         => rt.m_eyeTrackingType = "None"
    /\ (PropertiesOnSystem /\ rt.has_XR_EXT_eye_gaze_interaction
          /\ EyeGazeStructures # {})
         => \E i \in EyeGazeStructures :
               /\ \A j \in EyeGazeStructures : i <= j
               /\ out.written.chain[i].data \in {"XR_TRUE", "XR_FALSE"}
               /\ out.written.chain[i].data = "XR_TRUE" <=> rt.m_eyeTrackingType # "None"

\* Eye-gaze support reported on a system whose shared-memory source opened.
C19_Witness ==
    /\ PropertiesOnSystem /\ rt.has_XR_EXT_eye_gaze_interaction
    /\ EyeGazeStructures # {}
    /\ rt.m_eyeTrackingType = "Mmf"
    /\ \E i \in EyeGazeStructures : out.written.chain[i].data = "XR_TRUE"

\* Every collaborator a bring-up in environment env may ask answers favourably.
Available(env) ==
    /\ env.serviceRunning \/ env.allow_oculus_runtime # "false"
    /\ env.serviceRunning => env.regPath
    /\ env.initResult = "ovrSuccess"
    /\ env.createResult = "ovrSuccess"
    /\ env.trackingResult = "ovrSuccess"

\* The last call as a runtime that never failed would have answered it.
FreshOutcome ==
    xrGetSystem(InitialRuntime(TRUE, pre.rt.has_XR_EXT_eye_gaze_interaction,
                               pre.rt.has_XR_META_headset_id),
                InitialOvr, call, call.env)

\* C20: whatever attempts failed before, a valid xrGetSystem that finds no
\* session and an available environment returns XR_SUCCESS and system id 1,
\* and leaves the runtime and the backend exactly as the same call would have
\* left a runtime on which no attempt had failed.
C20_AvailabilityRetryable ==
    (ValidGetSystemCall /\ pre.rt.m_ovrSession = 0 /\ Available(call.env))
    => /\ out.result = "XR_SUCCESS"
       /\ out.written.systemId = {1}
       /\ rt.m_ovrSession \in ovr.eyeLevel
       /\ rt = FreshOutcome.rt
       /\ ovr = FreshOutcome.ovr

====
